---- MODULE Spec2Model ----
(***************************************************************************)
(* A model of the stock-tracker automation: ticker discovery               *)
(* (discover_tickers.py) and the five pipeline steps of main.py, with the  *)
(* registry file data/stocks.json and the analysis file output/stocks.json *)
(* as state.                                                               *)
(*                                                                         *)
(* JSON objects (Python dicts) are functions from field names to values;   *)
(* a field the dict does not hold is a name outside the DOMAIN.  None /    *)
(* JSON null is Null.  Dates are day numbers: the code compares ISO        *)
(* YYYY-MM-DD strings, whose order is the order of the days.  Python lists *)
(* and insertion-ordered dicts are sequences.                              *)
(***************************************************************************)
EXTENDS Integers, Sequences, FiniteSets, TLC

VARIABLES
    pc,               \* position of main(): idle, fetched, discovered, added, analysed
    today,            \* the date of the current run
    dataFile,         \* data/stocks.json: the persisted registry
    outputFile,       \* output/stocks.json
    videos,           \* main(): videos
    recommendations,  \* discover_new_tickers(): recommendations (ordered dict)
    new_tickers,      \* main(): new_tickers
    existing_updates, \* discover_new_tickers(): existing_updates
    current_stocks,   \* main(): current_stocks (updated_stocks is the same list)
    added_tickers,    \* main(): added_tickers
    max_to_add,       \* add_new_tickers_to_stocks(): the argument max_to_add
    price_lookups,    \* the calls of get_historical_price of the run's last step 3
                      \* or 5 so far, in order, each with its answer
    exit_status,      \* how main() ended: none (not yet), success, error (sys.exit(1))
    api_key,          \* whether OPENROUTER_API_KEY was set when main() last started
    hp,               \* one call of get_historical_price: its arguments, the loop
                      \* variable attempt, the requests made, and how it ended
    runs,             \* two processes running main() in one working directory, from
                      \* step 4 on: each one's position and the locals of step 5
    lp                \* one call of LivePriceFetcher.fetch_live_prices: its position,
                      \* the keys of the fetcher, prices, and the providers asked

\* the variables of the components that are modelled on their own
serviceVars == <<hp, runs, lp>>

\* no call of get_historical_price under way
HpIdle == [status |-> "idle", ticker |-> "", date |-> 0, max_retries |-> 0,
           attempt |-> 0, requests |-> 0, last |-> "none", result |-> 0 - 1]

\* the processes of the runs that share the working directory
Processes == {1, 2}

\* a process that has not started step 4; after: the processes that had ended when
\* this one started; wrote: the keys of the fresh records it merged
RunIdle == [pc |-> "added", crew_data |-> << >>, existing_data |-> << >>,
            merged_data |-> << >>, after |-> {}, wrote |-> {}]

\* no call of fetch_live_prices under way
LpIdle == [pc |-> "idle", tickers |-> << >>, alpha_vantage_key |-> FALSE,
           financial_modeling_prep_key |-> FALSE, prices |-> << >>, asked |-> << >>]

\* their values while the pipeline runs
ServiceIdle == hp = HpIdle /\ runs = [p \in Processes |-> RunIdle] /\ lp = LpIdle

vars == <<pc, today, dataFile, outputFile, videos, recommendations,
          new_tickers, existing_updates, current_stocks, added_tickers,
          max_to_add, price_lookups, exit_status, api_key, serviceVars>>

(***************************************************************************)
(* Bounds of the model.                                                    *)
(***************************************************************************)
MaxVideos == 3      \* videos in one batch
MaxFresh == 2       \* records in one analysis output

(***************************************************************************)
(* Values.                                                                 *)
(***************************************************************************)
Null == -1

Dates == {1, 2, 3}
RunDates == {2, 3}

\* str.upper() on the ticker strings of the model
Upper(t) ==
    CASE t = "nvda" -> "NVDA"
      [] t = "duol" -> "DUOL"
      [] OTHER -> t

\* Python's order on the strings of the model (code-point order)
StrRank(s) ==
    CASE s = "" -> 0
      [] s = "ChanA" -> 1
      [] s = "ChanB" -> 2
      [] s = "DUOL" -> 3
      [] s = "MELI" -> 4
      [] s = "NVDA" -> 5
      [] s = "Unknown" -> 6
      [] s = "Unknown Channel" -> 7
      [] s = "duol" -> 8
      [] s = "nvda" -> 9

\* dict.get(f, d)
Get(e, f, d) == IF f \in DOMAIN e THEN e[f] ELSE d

\* d[f] = v
SetField(e, f, v) == [g \in DOMAIN e \cup {f} |-> IF g = f THEN v ELSE e[g]]

\* Python truthiness of a number or None: None, 0 and 0.0 are false
Truthy(v) == v # Null /\ v # 0

\* set(list)
ToSet(s) == {s[i] : i \in 1..Len(s)}

\* the sequences over S of length at most n
SeqsUpTo(S, n) == UNION {[1..k -> S] : k \in 0..n}

\* the orders in which a Python set of strings may be iterated
RECURSIVE IterationOrders(_)
IterationOrders(S) ==
    IF S = {} THEN {<< >>}
    ELSE UNION {{<<x>> \o p : p \in IterationOrders(S \ {x})} : x \in S}

(***************************************************************************)
(* discover_tickers.py                                                     *)
(***************************************************************************)

\* the index of key k in an ordered dict (0 when absent)
DictIndex(d, k) ==
    IF \E i \in 1..Len(d) : d[i].k = k
    THEN CHOOSE i \in 1..Len(d) : d[i].k = k
    ELSE 0

\* d[k] = v on an ordered dict: in place when k is there, at the end otherwise
DictSet(d, k, v) ==
    IF DictIndex(d, k) = 0
    THEN Append(d, [k |-> k, v |-> v])
    ELSE [d EXCEPT ![DictIndex(d, k)] = [k |-> k, v |-> v]]

DictValues(d) == [i \in 1..Len(d) |-> d[i].v]

get_tracked_tickers(stocks) ==
    {Upper(Get(stocks[i], "ticker", "")) \o "|" \o Get(stocks[i], "source", "Unknown") :
        i \in {j \in 1..Len(stocks) : Upper(Get(stocks[j], "ticker", "")) # ""}}

\* lines 85-89: the tickers one video contributes
AllRecommended(video) ==
    ToSet(Get(video, "tickersBought", << >>)) \cup ToSet(Get(video, "tickersRecommended", << >>))

\* lines 97-106: the record a new key starts with
NewRecommendation(ticker, video, now) ==
    [ticker |-> ticker,
     channel |-> Get(video, "channelName", "Unknown Channel"),
     channelId |-> Get(video, "channelId", "unknown"),
     firstMentioned |-> Get(video, "publishedAt", now),
     videos |-> << >>,
     isBought |-> FALSE,
     isRecommended |-> FALSE,
     mentionCount |-> 0]

\* lines 121-122: the earlier of the video's date and the date held so far; beside
\* it the comparison the other way round
LatestMention(video_date, firstMentioned) ==
    IF video_date > firstMentioned THEN video_date ELSE firstMentioned
EarliestMention(video_date, firstMentioned) ==
    IF video_date < firstMentioned THEN video_date ELSE firstMentioned

\* lines 115-118: the flags are tested with the upper-cased ticker
FlagBought(ticker, video) == ticker \in ToSet(Get(video, "tickersBought", << >>))
FlagRecommended(ticker, video) == ticker \in ToSet(Get(video, "tickersRecommended", << >>))

\* lines 92-124: the body of the loop over one video's tickers
MentionTicker(recs, video, raw, now) ==
    LET ticker == Upper(raw)
        rec_key == ticker \o "|" \o Get(video, "channelName", "Unknown Channel")
        video_date == Get(video, "publishedAt", now)
        video_title == Get(video, "title", "")
        rec == IF DictIndex(recs, rec_key) = 0
               THEN NewRecommendation(ticker, video, now)
               ELSE recs[DictIndex(recs, rec_key)].v
        rec2 == [rec EXCEPT
                   !.videos = IF video_title \in ToSet(@) THEN @ ELSE Append(@, video_title),
                   !.isBought = @ \/ FlagBought(ticker, video),
                   !.isRecommended = @ \/ FlagRecommended(ticker, video),
                   !.firstMentioned = EarliestMention(video_date, @),
                   !.mentionCount = @ + 1]
    IN DictSet(recs, rec_key, rec2)

RECURSIVE MentionTickers(_, _, _, _)
MentionTickers(recs, video, order, now) ==
    IF order = << >> THEN recs
    ELSE MentionTickers(MentionTicker(recs, video, Head(order), now), video, Tail(order), now)

\* the dicts extract_recommendations_from_videos may return, one for every
\* order in which the tickers of each video's set are iterated
RECURSIVE extract_recommendations_from_videos(_, _, _)
extract_recommendations_from_videos(recs, vs, now) ==
    IF vs = << >> THEN {recs}
    ELSE UNION {extract_recommendations_from_videos(
                    MentionTickers(recs, Head(vs), order, now), Tail(vs), now) :
                  order \in IterationOrders(AllRecommended(Head(vs)))}

\* line 159, and the same with every group promoted
PromotionGateOff(rec) == TRUE
PromotionGate(rec) == rec.isBought \/ rec.isRecommended

\* list.sort(key=mentionCount, reverse=True): stable, ties keep their order
RECURSIVE InsertDesc(_, _)
InsertDesc(sorted, x) ==
    IF sorted = << >> THEN <<x>>
    ELSE IF Head(sorted).mentionCount >= x.mentionCount
         THEN <<Head(sorted)>> \o InsertDesc(Tail(sorted), x)
         ELSE <<x>> \o sorted

RECURSIVE SortFrom(_, _)
SortFrom(sorted, rest) ==
    IF rest = << >> THEN sorted
    ELSE SortFrom(InsertDesc(sorted, Head(rest)), Tail(rest))

Reverse(s) == [i \in 1..Len(s) |-> s[Len(s) + 1 - i]]

\* an ascending stable sort, reversed: ties come out in reverse order
SortReversedAscending(recs) == SortFrom(<< >>, Reverse(recs))
SortByMentionCount(recs) == SortFrom(<< >>, recs)

\* lines 149-160: the two lists before the sort
NewOf(recs, tracked) ==
    LET IsNew(e) == e.k \notin tracked /\ PromotionGate(e.v)
    IN DictValues(SelectSeq(recs, IsNew))

ExistingOf(recs, tracked) ==
    LET IsTracked(e) == e.k \in tracked
    IN DictValues(SelectSeq(recs, IsTracked))

\* lines 129-165
discover_new_tickers(recs, stocks) ==
    LET tracked == get_tracked_tickers(stocks)
    IN [new_tickers |-> SortByMentionCount(NewOf(recs, tracked)),
        existing_updates |-> ExistingOf(recs, tracked)]

\* get_historical_price: a closing price, or None (no data, or the last retry failed)
HistResults == {Null, 100}

\* lines 168-228; initial_price is what get_historical_price returned
create_new_stock_entry(ticker_rec, initial_price, now) ==
    [category |-> "Growth",
     ticker |-> ticker_rec.ticker,
     name |-> ticker_rec.ticker \o " (pending analysis)",
     price |-> 0,
     initialPrice |-> initial_price,
     recommendedDate |-> ticker_rec.firstMentioned,
     scores |-> 3,
     lastUpdated |-> now,
     source |-> ticker_rec.channel,
     sourceDetails |-> [channelId |-> ticker_rec.channelId,
                        firstMentioned |-> ticker_rec.firstMentioned,
                        videos |-> SubSeq(ticker_rec.videos, 1,
                                          IF Len(ticker_rec.videos) < 3
                                          THEN Len(ticker_rec.videos) ELSE 3),
                        isBought |-> ticker_rec.isBought,
                        addedOn |-> now]]

\* new_tickers[:max_to_add] for max_to_add >= 0, and the same without the cap
TakeAll(s, n) == s
Take(s, n) == SubSeq(s, 1, IF Len(s) < n THEN Len(s) ELSE n)

\* the candidates before the first one whose price lookup failed
RECURSIVE UntilFailure(_, _, _)
UntilFailure(chosen, hist, i) ==
    IF i > Len(chosen) \/ hist[i] = Null THEN SubSeq(chosen, 1, i - 1)
    ELSE UntilFailure(chosen, hist, i + 1)

\* lines 231-257 with a lookup failure ending the loop
add_new_tickers_until_failure(recs, stocks, limit, hist, now) ==
    LET chosen == UntilFailure(Take(recs, limit), hist, 1)
    IN [stocks |-> stocks \o [i \in 1..Len(chosen) |->
                                 create_new_stock_entry(chosen[i], hist[i], now)],
        added |-> [i \in 1..Len(chosen) |-> chosen[i].ticker],
        lookups |-> [i \in 1..Len(chosen) |->
                       [ticker |-> chosen[i].ticker, date |-> chosen[i].firstMentioned,
                        result |-> hist[i]]]]

\* lines 231-257; hist[i] is the answer of the price service for the i-th candidate;
\* lookups are the calls create_new_stock_entry made at line 193
add_new_tickers_to_stocks(recs, stocks, limit, hist, now) ==
    LET chosen == Take(recs, limit)
    IN [stocks |-> stocks \o [i \in 1..Len(chosen) |->
                                 create_new_stock_entry(chosen[i], hist[i], now)],
        added |-> [i \in 1..Len(chosen) |-> chosen[i].ticker],
        lookups |-> [i \in 1..Len(chosen) |->
                       [ticker |-> chosen[i].ticker, date |-> chosen[i].firstMentioned,
                        result |-> hist[i]]]]

\* lines 260-267
get_tickers_to_analyze(stocks) ==
    LET HasTicker(s) == Get(s, "ticker", "") # ""
    IN [i \in 1..Len(SelectSeq(stocks, HasTicker)) |->
           Upper(Get(SelectSeq(stocks, HasTicker)[i], "ticker", ""))]

(***************************************************************************)
(* main.py: step_5_finalize                                                *)
(***************************************************************************)

\* {} and dict.get(key, {})
EmptyDict == [f \in {} |-> Null]

\* lines 173-176: the key the prior registry is indexed by; beside it the key
\* without upper(), and the key of the ticker alone
get_stock_key_raw(s) == Get(s, "ticker", "") \o "|" \o Get(s, "source", "Unknown")
get_stock_key_ticker_only(s) == Upper(Get(s, "ticker", ""))
get_stock_key(s) == Upper(Get(s, "ticker", "")) \o "|" \o Get(s, "source", "Unknown")

\* lines 184-186: the key of a fresh record
FreshKey(entry) == Upper(Get(entry, "ticker", "")) \o "|" \o Get(entry, "source", "Unknown")

\* line 178: {get_stock_key(s): s for s in existing_data}
RECURSIVE IndexFrom(_, _)
IndexFrom(d, stocks) ==
    IF stocks = << >> THEN d
    ELSE IndexFrom(DictSet(d, get_stock_key(Head(stocks)), Head(stocks)), Tail(stocks))

\* line 178, and the same with the prior registry left out
IndexNothing(existing_data) == << >>
IndexExisting(existing_data) == IndexFrom(<< >>, existing_data)

\* lines 192-195, for one field
PreserveField(entry, existing_stock, field) ==
    IF field \in DOMAIN existing_stock /\ field \notin DOMAIN entry
    THEN SetField(entry, field, existing_stock[field])
    ELSE entry

\* lines 192-195 with every field of the prior entry in preserved_fields
PreserveAll(entry, existing_stock) ==
    [f \in DOMAIN entry \cup DOMAIN existing_stock |->
        IF f \in DOMAIN entry THEN entry[f] ELSE existing_stock[f]]

\* lines 192-195
Preserve(entry, existing_stock) ==
    PreserveField(PreserveField(PreserveField(entry, existing_stock, "initialPrice"),
                                existing_stock, "source"),
                  existing_stock, "recommendedDate")

\* line 199: entry.get('recommendedDate') or existing_stock.get('recommendedDate')
RecDate(entry, existing_stock) ==
    IF Get(entry, "recommendedDate", Null) # Null
    THEN entry["recommendedDate"]
    ELSE Get(existing_stock, "recommendedDate", Null)

\* lines 198-200: the conditions under which line 202 calls get_historical_price
LooksUp(entry, existing_stock, now) ==
    /\ ~Truthy(Get(entry, "initialPrice", Null))
    /\ RecDate(entry, existing_stock) # Null
    /\ RecDate(entry, existing_stock) < now

\* lines 198-213 without the branch of lines 211-213
BackfillDatedOnly(entry, existing_stock, now, hist_price) ==
    IF ~Truthy(Get(entry, "initialPrice", Null)) /\ LooksUp(entry, existing_stock, now)
    THEN IF Truthy(hist_price)
         THEN SetField(entry, "initialPrice", hist_price)
         ELSE SetField(entry, "initialPrice", Get(entry, "price", Null))
    ELSE entry

\* lines 198-213 without the fallback of lines 206-208
BackfillNoFallback(entry, existing_stock, now, hist_price) ==
    IF LooksUp(entry, existing_stock, now) /\ Truthy(hist_price)
    THEN SetField(entry, "initialPrice", hist_price)
    ELSE IF ~LooksUp(entry, existing_stock, now)
            /\ ~Truthy(Get(entry, "initialPrice", Null))
            /\ Truthy(Get(entry, "price", Null))
         THEN SetField(entry, "initialPrice", entry["price"])
         ELSE entry

\* lines 198-213; hist_price is what get_historical_price returns when it is asked
Backfill(entry, existing_stock, now, hist_price) ==
    IF ~Truthy(Get(entry, "initialPrice", Null))
    THEN IF LooksUp(entry, existing_stock, now)
         THEN IF Truthy(hist_price)
              THEN SetField(entry, "initialPrice", hist_price)
              ELSE SetField(entry, "initialPrice", Get(entry, "price", Null))
         ELSE IF Truthy(Get(entry, "price", Null))
              THEN SetField(entry, "initialPrice", entry["price"])
              ELSE entry
    ELSE entry

\* an element of the analysis list that is not a JSON object (a string, a number,
\* a list): the model writes it as a value with the one field json_scalar
NotAnObject == [json_scalar |-> TRUE]

\* line 183: isinstance(entry, dict)
IsDict(entry) == "json_scalar" \notin DOMAIN entry

\* lines 183-216 without the test of line 188
MergeEntryUnguarded(existing_by_key, entry, now, hist_price) ==
    LET stock_key == FreshKey(entry)
        existing_stock == IF DictIndex(existing_by_key, stock_key) = 0
                          THEN EmptyDict
                          ELSE existing_by_key[DictIndex(existing_by_key, stock_key)].v
    IN IF IsDict(entry)
       THEN DictSet(existing_by_key, stock_key,
                    SetField(Backfill(Preserve(entry, existing_stock),
                                      existing_stock, now, hist_price),
                             "lastUpdated", now))
       ELSE existing_by_key

\* lines 183-216: one fresh record merged into the index
MergeEntry(existing_by_key, entry, now, hist_price) ==
    LET stock_key == FreshKey(entry)
        existing_stock == IF DictIndex(existing_by_key, stock_key) = 0
                          THEN EmptyDict
                          ELSE existing_by_key[DictIndex(existing_by_key, stock_key)].v
    IN IF IsDict(entry) /\ Upper(Get(entry, "ticker", "")) # ""
       THEN DictSet(existing_by_key, stock_key,
                    SetField(Backfill(Preserve(entry, existing_stock),
                                      existing_stock, now, hist_price),
                             "lastUpdated", now))
       ELSE existing_by_key

\* lines 182-216: the loop; hist[i] answers the lookup made for the i-th record
RECURSIVE MergeAll(_, _, _, _, _)
MergeAll(existing_by_key, crew_data, i, now, hist) ==
    IF i > Len(crew_data) THEN existing_by_key
    ELSE MergeAll(MergeEntry(existing_by_key, crew_data[i], now, hist[i]),
                  crew_data, i + 1, now, hist)

\* JSON null as the value of a ticker (the other ticker values are strings)
NullTicker == "null"

\* line 184: .upper() on a ticker that is JSON null raises, inside the try of line 154
Raises(crew) ==
    crew.isList /\ \E i \in 1..Len(crew.data) :
        IsDict(crew.data[i]) /\ Get(crew.data[i], "ticker", "") = NullTicker

\* lines 198-202 for one fresh record: the call of get_historical_price, if it is made
LookupOf(existing_by_key, entry, now, hist_price) ==
    LET stock_key == FreshKey(entry)
        existing_stock == IF DictIndex(existing_by_key, stock_key) = 0
                          THEN EmptyDict
                          ELSE existing_by_key[DictIndex(existing_by_key, stock_key)].v
    IN IF /\ IsDict(entry)
          /\ Upper(Get(entry, "ticker", "")) # ""
          /\ LooksUp(Preserve(entry, existing_stock), existing_stock, now)
       THEN <<[ticker |-> Upper(Get(entry, "ticker", "")),
               date |-> RecDate(Preserve(entry, existing_stock), existing_stock),
               result |-> hist_price]>>
       ELSE << >>

\* the calls of get_historical_price the loop of lines 182-216 makes, in order
RECURSIVE LookupsAll(_, _, _, _, _)
LookupsAll(existing_by_key, crew_data, i, now, hist) ==
    IF i > Len(crew_data) THEN << >>
    ELSE LookupOf(existing_by_key, crew_data[i], now, hist[i])
         \o LookupsAll(MergeEntry(existing_by_key, crew_data[i], now, hist[i]),
                       crew_data, i + 1, now, hist)

reconcile_lookups(crew, existing_data, now, hist) ==
    IF crew.isList
    THEN LookupsAll(IndexExisting(existing_data), crew.data, 1, now, hist)
    ELSE << >>

\* line 222 with a missing source ordered as get_stock_key names it
SortKeyLessUnknown(a, b) ==
    \/ StrRank(Get(a, "ticker", "")) < StrRank(Get(b, "ticker", ""))
    \/ /\ Get(a, "ticker", "") = Get(b, "ticker", "")
       /\ StrRank(Get(a, "source", "Unknown")) < StrRank(Get(b, "source", "Unknown"))

\* line 222: the sort key (ticker, source), compared as Python compares tuples
SortKeyLess(a, b) ==
    \/ StrRank(Get(a, "ticker", "")) < StrRank(Get(b, "ticker", ""))
    \/ /\ Get(a, "ticker", "") = Get(b, "ticker", "")
       /\ StrRank(Get(a, "source", "")) < StrRank(Get(b, "source", ""))

\* list.sort is stable: x goes after the entries that are not greater
RECURSIVE InsertAsc(_, _)
InsertAsc(sorted, x) ==
    IF sorted = << >> THEN <<x>>
    ELSE IF SortKeyLess(x, Head(sorted))
         THEN <<x>> \o sorted
         ELSE <<Head(sorted)>> \o InsertAsc(Tail(sorted), x)

RECURSIVE SortAscFrom(_, _)
SortAscFrom(sorted, rest) ==
    IF rest = << >> THEN sorted
    ELSE SortAscFrom(InsertAsc(sorted, Head(rest)), Tail(rest))

\* lines 164-222: the merged list for a parsed analysis output
reconcile(crew, existing_data, now, hist) ==
    SortAscFrom(<< >>,
        DictValues(IF crew.isList
                   THEN MergeAll(IndexExisting(existing_data), crew.data, 1, now, hist)
                   ELSE IndexExisting(existing_data)))

(***************************************************************************)
(* main.py: the five steps of one run                                      *)
(***************************************************************************)

\* line 99: max_to_add=5
MaxToAdd == 5

NoFile == [exists |-> FALSE, valid |-> FALSE, isList |-> FALSE, data |-> << >>]
JsonList(l) == [exists |-> TRUE, valid |-> TRUE, isList |-> TRUE, data |-> l]
JsonOther == [exists |-> TRUE, valid |-> TRUE, isList |-> FALSE, data |-> << >>]
NotJson == [exists |-> TRUE, valid |-> FALSE, isList |-> FALSE, data |-> << >>]

Init ==
    /\ pc = "idle"
    /\ today = 2
    /\ dataFile = << >>
    /\ outputFile = NoFile
    /\ videos = << >>
    /\ recommendations = << >>
    /\ new_tickers = << >>
    /\ existing_updates = << >>
    /\ current_stocks = << >>
    /\ added_tickers = << >>
    /\ max_to_add = MaxToAdd
    /\ price_lookups = << >>
    /\ exit_status = "none"
    /\ api_key = TRUE
    /\ ServiceIdle

\* lines 44-74: the batch is what fetch_all_channels returns; the day does not go back
\* or load_channel_config raises (the config file is not JSON) and main() exits at 272
step_1_fetch_videos(Batches) ==
    /\ pc = "idle"
    /\ today' \in {d \in RunDates : d >= today}
    /\ \/ /\ pc' = "fetched"
          /\ videos' \in Batches
          /\ exit_status' = "none"
       \/ /\ pc' = "idle"
          /\ videos' = << >>
          /\ exit_status' = "error"
    /\ price_lookups' = << >>
    /\ api_key' = TRUE
    /\ UNCHANGED <<dataFile, outputFile, recommendations, new_tickers,
                   existing_updates, current_stocks, added_tickers, max_to_add,
                   serviceVars>>

\* lines 77-86
step_2_discover_tickers ==
    /\ pc = "fetched"
    /\ pc' = "discovered"
    /\ current_stocks' = dataFile
    /\ \E recs \in extract_recommendations_from_videos(<< >>, videos, today) :
          /\ recommendations' = recs
          /\ new_tickers' = discover_new_tickers(recs, dataFile).new_tickers
          /\ existing_updates' = discover_new_tickers(recs, dataFile).existing_updates
    /\ UNCHANGED <<today, dataFile, outputFile, videos, added_tickers,
                   max_to_add, price_lookups, exit_status, api_key, serviceVars>>

\* lines 89-111; the locals of step 2 other than new_tickers are dead from here on
step_3_add_new_tickers ==
    /\ pc = "discovered"
    /\ pc' = "added"
    /\ IF new_tickers = << >>
       THEN UNCHANGED <<current_stocks, added_tickers, outputFile, price_lookups>>
       ELSE \E hist \in [1..Len(Take(new_tickers, max_to_add)) -> HistResults] :
              LET r == add_new_tickers_to_stocks(new_tickers, current_stocks,
                                                 max_to_add, hist, today)
              IN /\ current_stocks' = r.stocks
                 /\ added_tickers' = r.added
                 /\ price_lookups' = r.lookups
                 /\ outputFile' = IF r.added # << >> THEN JsonList(r.stocks) ELSE outputFile
    /\ videos' = << >>
    /\ recommendations' = << >>
    /\ existing_updates' = << >>
    /\ UNCHANGED <<today, dataFile, new_tickers, max_to_add, exit_status, api_key,
                   serviceVars>>

\* lines 114-136: the crew's last task writes output/stocks.json; or the crew raises,
\* the file stays as it was and main() exits at line 272
step_4_run_analysis(Records) ==
    /\ pc = "added"
    /\ \/ /\ get_tickers_to_analyze(current_stocks) = << >>
          /\ outputFile' = outputFile
          /\ pc' = "analysed"
          /\ UNCHANGED <<current_stocks, added_tickers, exit_status>>
       \/ /\ get_tickers_to_analyze(current_stocks) # << >>
          /\ \E crew_data \in SeqsUpTo(Records, MaxFresh) : outputFile' = JsonList(crew_data)
          /\ pc' = "analysed"
          /\ UNCHANGED <<current_stocks, added_tickers, exit_status>>
       \/ /\ get_tickers_to_analyze(current_stocks) # << >>
          /\ outputFile' = JsonOther
          /\ pc' = "analysed"
          /\ UNCHANGED <<current_stocks, added_tickers, exit_status>>
       \/ /\ get_tickers_to_analyze(current_stocks) # << >>
          /\ outputFile' = NotJson
          /\ pc' = "analysed"
          /\ UNCHANGED <<current_stocks, added_tickers, exit_status>>
       \/ /\ get_tickers_to_analyze(current_stocks) # << >>
          /\ outputFile' = outputFile
          /\ pc' = "idle"
          /\ exit_status' = "error"
          /\ current_stocks' = << >>
          /\ added_tickers' = << >>
    /\ new_tickers' = << >>
    /\ UNCHANGED <<today, dataFile, videos, recommendations, existing_updates,
                   max_to_add, price_lookups, api_key, serviceVars>>

\* lines 114-136 for a crew whose last task writes the text it was given by the LLM
step_4_writes_text(Texts) ==
    /\ pc = "added"
    /\ pc' = "analysed"
    /\ get_tickers_to_analyze(current_stocks) # << >>
    /\ \E text \in Texts : outputFile' = [exists |-> TRUE, text |-> text]
    /\ new_tickers' = << >>
    /\ UNCHANGED <<today, dataFile, videos, recommendations, existing_updates,
                   current_stocks, added_tickers, max_to_add, price_lookups,
                   exit_status, api_key, serviceVars>>

(***************************************************************************)
(* main.py lines 156-162: the text of output/stocks.json.  A text is a     *)
(* sequence of pieces: the fence marker, a language tag, a line break, and *)
(* pieces of JSON.                                                         *)
(***************************************************************************)

\* the marker of three backquotes
Fence == "<fence>"
LineBreak == "\n"

\* the record the JSON piece "r" stands for
TextRecord == [ticker |-> "NVDA", source |-> "ChanA", price |-> 180]

\* line 156: .strip()
RECURSIVE LStrip(_)
LStrip(text) ==
    IF text # << >> /\ Head(text) = LineBreak THEN LStrip(Tail(text)) ELSE text

RECURSIVE RStrip(_)
RStrip(text) ==
    IF text # << >> /\ text[Len(text)] = LineBreak
    THEN RStrip(SubSeq(text, 1, Len(text) - 1))
    ELSE text

Strip(text) == RStrip(LStrip(text))

LineBreaks(text) == {i \in 1..Len(text) : text[i] = LineBreak}

\* lines 157-158: split("\n", 1)[1] if "\n" in raw_text else ""
StripLeadingFence(text) ==
    IF text # << >> /\ Head(text) = Fence
    THEN IF LineBreaks(text) # {}
         THEN SubSeq(text, (CHOOSE i \in LineBreaks(text) :
                               \A j \in LineBreaks(text) : i <= j) + 1, Len(text))
         ELSE << >>
    ELSE text

\* lines 159-160: rsplit("\n", 1)[0]
StripTrailingFence(text) ==
    IF text # << >> /\ text[Len(text)] = Fence
    THEN IF LineBreaks(text) # {}
         THEN SubSeq(text, 1, (CHOOSE i \in LineBreaks(text) :
                                  \A j \in LineBreaks(text) : i >= j) - 1)
         ELSE text
    ELSE text

\* the pieces of a text other than line breaks, joined
RECURSIVE Flat(_)
Flat(text) ==
    IF text = << >> THEN ""
    ELSE IF Head(text) = LineBreak THEN Flat(Tail(text))
    ELSE Head(text) \o Flat(Tail(text))

\* line 162: json.loads, for the JSON texts of the model
json_loads(text) ==
    IF Flat(text) = "[]" THEN [exists |-> TRUE, valid |-> TRUE, isList |-> TRUE, data |-> << >>]
    ELSE IF Flat(text) = "[r]"
    THEN [exists |-> TRUE, valid |-> TRUE, isList |-> TRUE, data |-> <<TextRecord>>]
    ELSE [exists |-> TRUE, valid |-> FALSE, isList |-> FALSE, data |-> << >>]

\* lines 156-162: what step 5 reads from output/stocks.json; a file the model holds
\* without its text is read as the value it was written from
Parsed(file) ==
    IF "text" \in DOMAIN file
    THEN json_loads(StripTrailingFence(StripLeadingFence(Strip(file.text))))
    ELSE file

\* lines 156-162 parse the file; a record that raises ends the try block before
\* the writes of lines 225-229; beside it the same with the parse error swallowed
ParseFailureIgnored(file) == file.exists /\ ~Raises(file)
Completes(file) == file.exists /\ file.valid /\ ~Raises(file)

\* lines 139-238, and lines 259-263 of main(): the result of step 5 is not looked at
step_5_finalize ==
    /\ pc = "analysed"
    /\ pc' = "idle"
    /\ IF Completes(Parsed(outputFile))
       THEN \E hist \in [1..Len(Parsed(outputFile).data) -> HistResults] :
              /\ dataFile' = reconcile(Parsed(outputFile), dataFile, today, hist)
              /\ outputFile' = JsonList(reconcile(Parsed(outputFile), dataFile, today, hist))
              /\ price_lookups' = reconcile_lookups(Parsed(outputFile), dataFile, today, hist)
       ELSE /\ UNCHANGED <<dataFile, outputFile>>
            /\ price_lookups' = << >>
    /\ current_stocks' = << >>
    /\ added_tickers' = << >>
    /\ exit_status' = "success"
    /\ UNCHANGED <<today, videos, recommendations, new_tickers, existing_updates,
                   max_to_add, api_key, serviceVars>>

\* main() without the test of lines 245-248: the run goes on to step 1
main_ignores_api_key ==
    /\ pc = "idle"
    /\ pc' = "fetched"
    /\ api_key' = FALSE
    /\ exit_status' = "none"
    /\ videos' \in SeqsUpTo({[videoId |-> "v", title |-> "t1", publishedAt |-> 1,
                               channelId |-> "c", channelName |-> "ChanA",
                               tickersMentioned |-> <<"NVDA">>,
                               tickersBought |-> <<"NVDA">>,
                               tickersRecommended |-> << >>]}, 1)
    /\ UNCHANGED <<today, dataFile, outputFile, recommendations, new_tickers,
                   existing_updates, current_stocks, added_tickers, max_to_add,
                   price_lookups, serviceVars>>

\* lines 243-248 of main(): without OPENROUTER_API_KEY the run ends with sys.exit(1)
\* before the try block of lines 254-259
main_without_api_key ==
    /\ pc = "idle"
    /\ pc' = "idle"
    /\ api_key' = FALSE
    /\ exit_status' = "error"
    /\ UNCHANGED <<today, dataFile, outputFile, videos, recommendations, new_tickers,
                   existing_updates, current_stocks, added_tickers, max_to_add,
                   price_lookups, serviceVars>>

(***************************************************************************)
(* tools/historical_prices.py: get_historical_price, one loop iteration    *)
(* at a time.                                                              *)
(***************************************************************************)

\* the largest max_retries a call is given
MaxRetries == 3

\* max_retries as a caller may pass it (line 15; range() of a negative number is empty)
RetryArguments == (0 - 1)..MaxRetries

\* line 71: the rounded close the answer holds
ClosePrices == {100, 250}

\* what one pass through the try block of lines 28-71 does: it returns a close, it
\* returns None because the answer holds no usable close, or it raises
AttemptOutcomes == {"price", "nodata", "raise"}

\* line 15: the call
hp_call ==
    /\ hp.status # "running"
    /\ \E t \in {"NVDA", "DUOL"}, d \in Dates, m \in RetryArguments :
          hp' = [status |-> "running", ticker |-> t, date |-> d, max_retries |-> m,
                 attempt |-> 0, requests |-> 0, last |-> "none", result |-> Null]
    /\ UNCHANGED <<pc, today, dataFile, outputFile, videos, recommendations, new_tickers,
                   existing_updates, current_stocks, added_tickers, max_to_add,
                   price_lookups, exit_status, api_key, runs, lp>>

\* lines 73-78 with the sleep of line 75 taken after every failed attempt
hp_attempt_always_sleeps ==
    /\ hp.status = "running"
    /\ hp.attempt < hp.max_retries
    /\ \E outcome \in AttemptOutcomes, close \in ClosePrices :
          hp' = IF outcome = "price"
                THEN [hp EXCEPT !.status = "returned", !.requests = @ + 1,
                                !.last = outcome, !.result = close]
                ELSE IF outcome = "nodata"
                THEN [hp EXCEPT !.status = "returned", !.requests = @ + 1,
                                !.last = outcome, !.result = Null]
                ELSE [hp EXCEPT !.attempt = @ + 1, !.requests = @ + 1,
                                !.last = outcome]
    /\ UNCHANGED <<pc, today, dataFile, outputFile, videos, recommendations, new_tickers,
                   existing_updates, current_stocks, added_tickers, max_to_add,
                   price_lookups, exit_status, api_key, runs, lp>>

\* lines 28-78: one iteration of the loop of line 28
hp_attempt ==
    /\ hp.status = "running"
    /\ hp.attempt < hp.max_retries
    /\ \E outcome \in AttemptOutcomes, close \in ClosePrices :
          hp' = IF outcome = "price"
                THEN [hp EXCEPT !.status = "returned", !.requests = @ + 1,
                                !.last = outcome, !.result = close]
                ELSE IF outcome = "nodata"
                THEN [hp EXCEPT !.status = "returned", !.requests = @ + 1,
                                !.last = outcome, !.result = Null]
                ELSE IF hp.attempt < hp.max_retries - 1
                THEN [hp EXCEPT !.attempt = @ + 1, !.requests = @ + 1,
                                !.last = outcome]
                ELSE [hp EXCEPT !.status = "returned", !.requests = @ + 1,
                                !.last = outcome, !.result = Null]
    /\ UNCHANGED <<pc, today, dataFile, outputFile, videos, recommendations, new_tickers,
                   existing_updates, current_stocks, added_tickers, max_to_add,
                   price_lookups, exit_status, api_key, runs, lp>>

\* line 79: the loop of line 28 has no iteration left
hp_loop_ends ==
    /\ hp.status = "running"
    /\ hp.attempt >= hp.max_retries
    /\ hp' = [hp EXCEPT !.status = "returned", !.result = Null]
    /\ UNCHANGED <<pc, today, dataFile, outputFile, videos, recommendations, new_tickers,
                   existing_updates, current_stocks, added_tickers, max_to_add,
                   price_lookups, exit_status, api_key, runs, lp>>

NextRetry == hp_call \/ hp_attempt \/ hp_loop_ends

(***************************************************************************)
(* Two processes that run main() in the same working directory: steps 4    *)
(* and 5 of each, one file access at a time.                               *)
(***************************************************************************)

pipelineVars == <<pc, today, videos, recommendations, new_tickers, existing_updates,
                  current_stocks, added_tickers, max_to_add, price_lookups,
                  exit_status, api_key>>

\* lines 114-136: the crew of process p writes output/stocks.json
run_step_4(p, Records) ==
    /\ runs[p].pc = "added"
    /\ \E crew_data \in SeqsUpTo(Records, MaxFresh) : outputFile' = JsonList(crew_data)
    /\ runs' = [runs EXCEPT ![p].pc = "analysed",
                            ![p].after = {q \in Processes : runs[q].pc = "done"}]
    /\ UNCHANGED <<pipelineVars, dataFile, hp, lp>>

\* lines 156-170 with existing_data left as line 165 sets it
run_step_5_reads_output_only(p) ==
    /\ runs[p].pc = "analysed"
    /\ Completes(Parsed(outputFile))
    /\ runs' = [runs EXCEPT ![p].pc = "read",
                            ![p].crew_data = Parsed(outputFile).data,
                            ![p].existing_data = << >>]
    /\ UNCHANGED <<pipelineVars, dataFile, outputFile, hp, lp>>

\* lines 156-170: process p reads output/stocks.json and then data/stocks.json
run_step_5_reads(p) ==
    /\ runs[p].pc = "analysed"
    /\ Completes(Parsed(outputFile))
    /\ runs' = [runs EXCEPT ![p].pc = "read",
                            ![p].crew_data = Parsed(outputFile).data,
                            ![p].existing_data = dataFile]
    /\ UNCHANGED <<pipelineVars, dataFile, outputFile, hp, lp>>

\* lines 172-225: process p merges what it read and writes output/stocks.json
run_step_5_writes(p) ==
    /\ runs[p].pc = "read"
    /\ \E hist \in [1..Len(runs[p].crew_data) -> HistResults] :
          LET merged_data == reconcile(JsonList(runs[p].crew_data), runs[p].existing_data,
                                       today, hist)
          IN /\ outputFile' = JsonList(merged_data)
             /\ runs' = [runs EXCEPT
                            ![p].pc = "written",
                            ![p].merged_data = merged_data,
                            ![p].wrote = {FreshKey(runs[p].crew_data[i]) :
                                            i \in {j \in 1..Len(runs[p].crew_data) :
                                                      /\ IsDict(runs[p].crew_data[j])
                                                      /\ Get(runs[p].crew_data[j], "ticker", "") # ""}}]
    /\ UNCHANGED <<pipelineVars, dataFile, hp, lp>>

\* lines 228-229: process p copies output/stocks.json to data/stocks.json
run_step_5_copies(p) ==
    /\ runs[p].pc = "written"
    /\ dataFile' = Parsed(outputFile).data
    /\ runs' = [runs EXCEPT ![p].pc = "done"]
    /\ UNCHANGED <<pipelineVars, outputFile, hp, lp>>

(***************************************************************************)
(* tools/live_price_fetcher.py: LivePriceFetcher.fetch_live_prices, one    *)
(* provider at a time.  prices is a dict: a function on its keys.          *)
(***************************************************************************)

\* the symbols a request or an answer may name
LiveSymbols == {"NVDA", "DUOL"}

\* the lists of tickers a caller asks for
LiveRequests == {<<"NVDA">>, <<"DUOL">>, <<"NVDA", "DUOL">>, <<"DUOL", "NVDA">>}

\* lines 36, 60 and 84: what a provider answers for one ticker: None or its price
YfinanceAnswers == {Null, 180}
AlphaVantageAnswers == {Null, 170}
FmpAnswers == {Null, 160}

\* dict.update
DictUpdate(d, u) ==
    [t \in DOMAIN d \cup DOMAIN u |-> IF t \in DOMAIN u THEN u[t] ELSE d[t]]

\* lines 98 and 104: the keys of prices whose value is None
missing_tickers(prices) == {t \in DOMAIN prices : prices[t] = Null}

\* lines 18-21 and 95: the fetcher is built and yfinance is asked for every ticker
lp_yfinance ==
    /\ lp.pc \in {"idle", "returned"}
    /\ \E tickers \in LiveRequests, alpha \in BOOLEAN, fmp \in BOOLEAN :
          \E prices \in [ToSet(tickers) -> YfinanceAnswers] :
             lp' = [pc |-> "yfinance", tickers |-> tickers,
                    alpha_vantage_key |-> alpha, financial_modeling_prep_key |-> fmp,
                    prices |-> prices,
                    asked |-> <<[provider |-> "yfinance", tickers |-> ToSet(tickers)]>>]
    /\ UNCHANGED <<pipelineVars, dataFile, outputFile, hp, runs>>

\* lines 98-101 and 42-64: Alpha Vantage answers for each ticker it is given
lp_alpha_vantage ==
    /\ lp.pc = "yfinance"
    /\ IF missing_tickers(lp.prices) = {}
       THEN lp' = [lp EXCEPT !.pc = "alpha_vantage"]
       ELSE \E alpha_prices \in IF lp.alpha_vantage_key
                                THEN [missing_tickers(lp.prices) -> AlphaVantageAnswers]
                                ELSE {<< >>} :
              lp' = [lp EXCEPT !.pc = "alpha_vantage",
                               !.prices = DictUpdate(@, alpha_prices),
                               !.asked = Append(@, [provider |-> "alpha_vantage",
                                                    tickers |-> missing_tickers(lp.prices)])]
    /\ UNCHANGED <<pipelineVars, dataFile, outputFile, hp, runs>>

\* the answers of Financial Modeling Prep: a quote for any of the symbols, whichever
\* were asked for (lines 81-84 take the symbol from the answer); no quote at all when
\* the request raises (line 85)
FmpResponses ==
    UNION {[symbols -> FmpAnswers] : symbols \in SUBSET LiveSymbols}

\* lines 104-109 and 66-88
lp_financial_modeling_prep ==
    /\ lp.pc = "alpha_vantage"
    /\ IF missing_tickers(lp.prices) = {}
       THEN lp' = [lp EXCEPT !.pc = "returned"]
       ELSE \E fmp_prices \in IF lp.financial_modeling_prep_key
                              THEN FmpResponses
                              ELSE {<< >>} :
              lp' = [lp EXCEPT !.pc = "returned",
                               !.prices = DictUpdate(@, fmp_prices),
                               !.asked = Append(@, [provider |-> "financial_modeling_prep",
                                                    tickers |-> missing_tickers(lp.prices)])]
    /\ UNCHANGED <<pipelineVars, dataFile, outputFile, hp, runs>>

NextLivePrices == lp_yfinance \/ lp_alpha_vantage \/ lp_financial_modeling_prep

SpecLivePrices == Init /\ [][NextLivePrices]_vars

(***************************************************************************)
(* Inputs.                                                                 *)
(***************************************************************************)

Video(channel, bought, recommended, mentioned) ==
    [videoId |-> "v", title |-> "t1", publishedAt |-> 1,
     channelId |-> "c", channelName |-> channel,
     tickersMentioned |-> mentioned, tickersBought |-> bought,
     tickersRecommended |-> recommended]

\* what the video ingest delivers in the pipeline runs
PipelineVideos ==
    {Video("ChanA", <<"NVDA">>, << >>, <<"NVDA">>),
     Video("ChanB", << >>, <<"DUOL">>, <<"DUOL", "MELI">>)}

\* analysis records that differ in their identity fields
KeyRecords ==
    {[ticker |-> t, price |-> 180] : t \in {"NVDA", ""}}
    \cup {[ticker |-> t, source |-> "ChanA", price |-> 180] : t \in {"NVDA", "nvda"}}

\* in the sets of inputs: the value of a field the record does not hold
Absent == 0 - 2

WithField(e, f, v) == IF v # Absent THEN SetField(e, f, v) ELSE e

\* analysis records for one key that differ in price, initialPrice and recommendedDate

FieldRecords ==
    {WithField(WithField([ticker |-> "NVDA", source |-> "ChanA", price |-> 180],
                         "initialPrice", ip),
               "recommendedDate", rd) :
        ip \in {Absent, Null, 0, 120}, rd \in {Absent, Null, 1, 3}}
    \cup {[ticker |-> "NVDA", source |-> "ChanA", price |-> 0],
          [ticker |-> "NVDA", source |-> "ChanA", price |-> 0, recommendedDate |-> 1]}

Next ==
    \/ step_1_fetch_videos(SeqsUpTo(PipelineVideos, MaxVideos))
    \/ step_2_discover_tickers
    \/ step_3_add_new_tickers
    \/ step_4_run_analysis(KeyRecords)
    \/ step_5_finalize

Spec == Init /\ [][Next]_vars

NextFields ==
    \/ step_1_fetch_videos(SeqsUpTo({Video("ChanA", <<"NVDA">>, << >>, <<"NVDA">>)}, MaxVideos))
    \/ step_2_discover_tickers
    \/ step_3_add_new_tickers
    \/ step_4_run_analysis(FieldRecords)
    \/ step_5_finalize

SpecFields == Init /\ [][NextFields]_vars

\* analysis records for two keys that differ in what the backfill looks at
BackfillRecords ==
    {[ticker |-> "NVDA", source |-> "ChanA", price |-> 180],
     [ticker |-> "NVDA", source |-> "ChanA", price |-> 180, recommendedDate |-> 1],
     [ticker |-> "NVDA", source |-> "ChanA", price |-> 180, initialPrice |-> 120],
     [ticker |-> "NVDA", source |-> "ChanA", price |-> 0],
     [ticker |-> "DUOL", source |-> "ChanB", price |-> 180, initialPrice |-> 0,
      recommendedDate |-> 1]}

NextBackfill ==
    \/ step_1_fetch_videos(SeqsUpTo({Video("ChanA", <<"NVDA">>, << >>, <<"NVDA">>)}, MaxVideos))
    \/ step_2_discover_tickers
    \/ step_3_add_new_tickers
    \/ step_4_run_analysis(BackfillRecords)
    \/ step_5_finalize

SpecBackfill == Init /\ [][NextBackfill]_vars

\* analysis records of which one has a null ticker
ErrorRecords ==
    {[ticker |-> "NVDA", source |-> "ChanA", price |-> 180],
     [ticker |-> NullTicker, source |-> "ChanA", price |-> 180]}

NextErrors ==
    \/ step_1_fetch_videos(SeqsUpTo({Video("ChanA", <<"NVDA">>, << >>, <<"NVDA">>)}, MaxVideos))
    \/ step_2_discover_tickers
    \/ step_3_add_new_tickers
    \/ step_4_run_analysis(ErrorRecords)
    \/ step_5_finalize

SpecErrors == Init /\ [][NextErrors]_vars

(***************************************************************************)
(* Discovery on its own: discover_new_tickers applied to a video batch and *)
(* a registry drawn from bounded sets.                                     *)
(***************************************************************************)

DiscoverVideos ==
    {Video(c, b, r, <<"MELI", "NVDA">>) :
        c \in {"ChanA", "ChanB"},
        b \in {<< >>, <<"NVDA">>, <<"duol">>, <<"DUOL", "NVDA">>},
        r \in {<< >>, <<"DUOL">>}}

\* the registry file when discover reads it: no file yet, or two tracked pairs
DiscoverRegistries ==
    {<< >>,
     <<[ticker |-> "NVDA", source |-> "ChanA", price |-> 180, initialPrice |-> 180,
        lastUpdated |-> 2],
       [ticker |-> "duol", source |-> "ChanB", price |-> 180, initialPrice |-> 100,
        recommendedDate |-> 1, lastUpdated |-> 2]>>}

InitDiscover ==
    /\ pc = "fetched"
    /\ today = 2
    /\ dataFile \in DiscoverRegistries
    /\ outputFile = NoFile
    /\ videos \in SeqsUpTo(DiscoverVideos, MaxVideos)
    /\ recommendations = << >>
    /\ new_tickers = << >>
    /\ existing_updates = << >>
    /\ current_stocks = << >>
    /\ added_tickers = << >>
    /\ max_to_add = MaxToAdd
    /\ price_lookups = << >>
    /\ exit_status = "none"
    /\ api_key = TRUE
    /\ ServiceIdle

NextDiscover == step_2_discover_tickers

SpecDiscover == InitDiscover /\ [][NextDiscover]_vars

(***************************************************************************)
(* Discovery on batches whose videos differ in their dates.                *)
(***************************************************************************)

DatedVideo(channel, bought, recommended, date) ==
    [Video(channel, bought, recommended, << >>) EXCEPT !.publishedAt = date]

DatedVideos ==
    {DatedVideo(c, l[1], l[2], d) :
        c \in {"ChanA", "ChanB"},
        l \in {<< <<"MELI">>, << >> >>, << << >>, <<"MELI", "NVDA">> >>},
        d \in Dates}

InitDates ==
    /\ pc = "fetched"
    /\ today = 3
    /\ dataFile \in DiscoverRegistries
    /\ outputFile = NoFile
    /\ videos \in SeqsUpTo(DatedVideos, MaxVideos)
    /\ recommendations = << >>
    /\ new_tickers = << >>
    /\ existing_updates = << >>
    /\ current_stocks = << >>
    /\ added_tickers = << >>
    /\ max_to_add = MaxToAdd
    /\ price_lookups = << >>
    /\ exit_status = "none"
    /\ api_key = TRUE
    /\ ServiceIdle

SpecDates == InitDates /\ [][NextDiscover]_vars

(***************************************************************************)
(* Discovery followed by add_new_tickers_to_stocks, for several values of  *)
(* its argument max_to_add.                                                *)
(***************************************************************************)

AddVideos ==
    {Video(c, <<t>>, << >>, <<t>>) : c \in {"ChanA", "ChanB"}, t \in {"NVDA", "DUOL"}}

\* line 234: max_to_add, among them the value main.py passes
AddArguments == {0, 1, 2, MaxToAdd}

InitAdd ==
    /\ pc = "fetched"
    /\ today = 2
    /\ dataFile \in DiscoverRegistries
    /\ outputFile = NoFile
    /\ videos \in SeqsUpTo(AddVideos, MaxVideos)
    /\ recommendations = << >>
    /\ new_tickers = << >>
    /\ existing_updates = << >>
    /\ current_stocks = << >>
    /\ added_tickers = << >>
    /\ max_to_add \in AddArguments
    /\ price_lookups = << >>
    /\ exit_status = "none"
    /\ api_key = TRUE
    /\ ServiceIdle

NextAdd ==
    \/ step_2_discover_tickers
    \/ step_3_add_new_tickers

SpecAdd == InitAdd /\ [][NextAdd]_vars

(***************************************************************************)
(* The properties.                                                         *)
(***************************************************************************)

\* the identity key of a registry entry: upper-cased ticker, "|", source or "Unknown"
IdentityKey(e) == Upper(Get(e, "ticker", "")) \o "|" \o Get(e, "source", "Unknown")

KeysOf(stocks) == {IdentityKey(stocks[i]) : i \in 1..Len(stocks)}

\* a reconcile step that wrote the registry
Reconciles == pc = "analysed" /\ pc' = "idle" /\ Completes(Parsed(outputFile))

\* the records of the analysis output that reconcile iterates over
FreshRecords == IF Parsed(outputFile).isList THEN Parsed(outputFile).data ELSE << >>

HasNumber(e, f) == f \in DOMAIN e /\ e[f] # Null

\* C1: once the registry entry of an identity key holds a numeric initialPrice,
\* every later registry holds that entry with the same initialPrice.
InitialPriceMonotonic ==
    [][\A i \in 1..Len(dataFile) :
          HasNumber(dataFile[i], "initialPrice")
          => \E j \in 1..Len(dataFile') :
                /\ IdentityKey(dataFile'[j]) = IdentityKey(dataFile[i])
                /\ HasNumber(dataFile'[j], "initialPrice")
                /\ dataFile'[j]["initialPrice"] = dataFile[i]["initialPrice"]]_vars

\* C2: a prior entry with initialPrice 120 and a recommendedDate, reconciled with one
\* fresh record for its key with price 180 and initialPrice absent or null, comes out
\* with initialPrice 120, price 180 and lastUpdated = today.
CopyForwardExample ==
    [][(/\ Reconciles
        /\ Len(FreshRecords) = 1
        /\ Get(FreshRecords[1], "price", Null) = 180
        /\ Get(FreshRecords[1], "initialPrice", Null) = Null
        /\ \E i \in 1..Len(dataFile) :
              /\ IdentityKey(dataFile[i]) = IdentityKey(FreshRecords[1])
              /\ Get(dataFile[i], "initialPrice", Null) = 120
              /\ Get(dataFile[i], "recommendedDate", Null) # Null)
       => \E j \in 1..Len(dataFile') :
             /\ IdentityKey(dataFile'[j]) = IdentityKey(FreshRecords[1])
             /\ Get(dataFile'[j], "initialPrice", Null) = 120
             /\ Get(dataFile'[j], "price", Null) = 180
             /\ Get(dataFile'[j], "lastUpdated", Null) = today]_vars

\* C3: no two entries of the registry share an identity key: in the persisted
\* registry, and in the list discover reads and addCandidates appends to.
UniqueKeys(stocks) ==
    \A i, j \in 1..Len(stocks) : IdentityKey(stocks[i]) = IdentityKey(stocks[j]) => i = j

IdentityUniqueness == UniqueKeys(dataFile) /\ UniqueKeys(current_stocks)

\* a registry of two keys, one entry upserted under a lower-case ticker, with a
\* candidate appended by addCandidates
IdentityUniquenessWitness ==
    /\ pc = "added"
    /\ Len(dataFile) = 2
    /\ \E i \in 1..Len(dataFile) : dataFile[i]["ticker"] = "nvda"
    /\ Len(current_stocks) > Len(dataFile)

WithoutLastUpdated(e) == [f \in DOMAIN e \ {"lastUpdated"} |-> e[f]]

\* C4: a key of the prior registry for which the analysis has no record is in the
\* reconciled registry with every field other than lastUpdated as before.
MergeCompleteness ==
    [][Reconciles
       => \A i \in 1..Len(dataFile) :
             IdentityKey(dataFile[i]) \notin KeysOf(FreshRecords)
             => \E j \in 1..Len(dataFile') :
                   /\ IdentityKey(dataFile'[j]) = IdentityKey(dataFile[i])
                   /\ WithoutLastUpdated(dataFile'[j]) = WithoutLastUpdated(dataFile[i])]_vars

\* after a run of a later day: an entry the run's analysis did not touch beside one it did
MergeCompletenessWitness ==
    /\ pc = "idle"
    /\ Len(dataFile) = 2
    /\ \E i, j \in 1..Len(dataFile) :
          dataFile[i]["lastUpdated"] < today /\ dataFile[j]["lastUpdated"] = today

\* the entries step 3 appended in this run
AddedEntries == SubSeq(current_stocks, Len(current_stocks) - Len(added_tickers) + 1,
                       Len(current_stocks))

\* C5: the identity key of every candidate added in step 3 is in the registry
\* persisted at the end of the run.
AddedCandidatesPersisted ==
    [][(pc = "analysed" /\ pc' = "idle") => KeysOf(AddedEntries) \subseteq KeysOf(dataFile')]_vars

\* C6: an identity key of the persisted registry is in the persisted registry after
\* every later step.
NoDeletion == [][KeysOf(dataFile) \subseteq KeysOf(dataFile')]_vars

\* a run of a later day is over and an entry of an earlier day is still there
NoDeletionWitness ==
    /\ pc = "idle"
    /\ \E i \in 1..Len(dataFile) : dataFile[i]["lastUpdated"] < today

\* C7: a recommendedDate of a prior entry is the recommendedDate of that key's
\* entry after any reconcile call.
RecommendedDateImmutable ==
    [][\A i \in 1..Len(dataFile) :
          HasNumber(dataFile[i], "recommendedDate")
          => \E j \in 1..Len(dataFile') :
                /\ IdentityKey(dataFile'[j]) = IdentityKey(dataFile[i])
                /\ Get(dataFile'[j], "recommendedDate", Null) = dataFile[i]["recommendedDate"]]_vars

\* the key of a Recommendation
RecKey(rec) == rec.ticker \o "|" \o rec.channel

RecKeys(recs) == {RecKey(recs[i]) : i \in 1..Len(recs)}

\* the groups ticker|channelName with a video that lists the ticker (in any letter
\* case) in tickersBought or tickersRecommended
Groups ==
    UNION {{Upper(t) \o "|" \o videos[i]["channelName"] :
               t \in ToSet(videos[i]["tickersBought"])
                      \cup ToSet(videos[i]["tickersRecommended"])} :
           i \in 1..Len(videos)}

\* C8: no candidate has isBought and isRecommended both false, and every candidate's
\* ticker is listed in tickersBought or tickersRecommended by a video of its channel.
PromotionGateHolds ==
    pc = "discovered"
    => \A i \in 1..Len(new_tickers) :
          /\ new_tickers[i].isBought \/ new_tickers[i].isRecommended
          /\ RecKey(new_tickers[i]) \in Groups

\* the gate kept a group with both flags false out of the candidates, beside a
\* candidate it let through; MELI is only ever in tickersMentioned
PromotionGateWitness ==
    /\ pc = "discovered"
    /\ new_tickers # << >>
    /\ \E i \in 1..Len(recommendations) :
          /\ ~recommendations[i].v.isBought
          /\ ~recommendations[i].v.isRecommended
          /\ recommendations[i].k \notin get_tracked_tickers(dataFile)
    /\ \E j \in 1..Len(videos) : "MELI" \in ToSet(videos[j]["tickersMentioned"])

Count(recs, k) == Cardinality({i \in 1..Len(recs) : RecKey(recs[i]) = k})

\* C9: discover returns exactly one Recommendation per group; a group is in
\* newCandidates iff its key is not a registry key and in existingMatches iff it is;
\* a single video buying T from an untracked channel gives one candidate with
\* mentionCount 1 and isBought true.
DiscoveryPartition ==
    pc = "discovered"
    => /\ \A g \in Groups :
             /\ Count(new_tickers, g) + Count(existing_updates, g) = 1
             /\ g \in RecKeys(new_tickers) <=> g \notin KeysOf(dataFile)
             /\ g \in RecKeys(existing_updates) <=> g \in KeysOf(dataFile)
       /\ RecKeys(new_tickers) \cup RecKeys(existing_updates) \subseteq Groups
       /\ RecKeys(new_tickers) \cap RecKeys(existing_updates) = {}
       /\ (/\ Len(videos) = 1
           /\ Len(videos[1]["tickersBought"]) = 1
           /\ videos[1]["tickersRecommended"] = << >>
           /\ Groups \cap KeysOf(dataFile) = {})
          => /\ Len(new_tickers) = 1
             /\ RecKey(new_tickers[1]) \in Groups
             /\ new_tickers[1].mentionCount = 1
             /\ new_tickers[1].isBought

\* C10: newCandidates is non-increasing in mentionCount, and candidates with equal
\* mentionCount are in the order in which the fold first met their groups.
CandidateOrdering ==
    pc = "discovered"
    => \A i, j \in 1..Len(new_tickers) :
          i < j
          => /\ new_tickers[i].mentionCount >= new_tickers[j].mentionCount
             /\ new_tickers[i].mentionCount = new_tickers[j].mentionCount
                => DictIndex(recommendations, RecKey(new_tickers[i]))
                   < DictIndex(recommendations, RecKey(new_tickers[j]))

\* three candidates, two of them tied, that the sort put in another order than the
\* fold met them in
CandidateOrderingWitness ==
    /\ pc = "discovered"
    /\ Len(new_tickers) >= 3
    /\ \E i, j \in 1..Len(new_tickers) :
          i # j /\ new_tickers[i].mentionCount = new_tickers[j].mentionCount
    /\ new_tickers # NewOf(recommendations, get_tracked_tickers(dataFile))

\* the videos of a Recommendation's channel that list its ticker
Listing(rec) ==
    {j \in 1..Len(videos) :
        /\ videos[j]["channelName"] = rec.channel
        /\ \E t \in ToSet(videos[j]["tickersBought"])
                      \cup ToSet(videos[j]["tickersRecommended"]) : Upper(t) = rec.ticker}

\* C11: firstMentioned of every Recommendation is the least publishedAt of the videos
\* of its channel that list its ticker in tickersBought or tickersRecommended, in
\* whatever order the batch holds them.
FirstMentionedIsMinimum ==
    pc = "discovered"
    => \A i \in 1..Len(recommendations) :
          LET rec == recommendations[i].v
          IN /\ \A j \in Listing(rec) : rec.firstMentioned <= videos[j]["publishedAt"]
             /\ \E j \in Listing(rec) : rec.firstMentioned = videos[j]["publishedAt"]

\* the spec's example: two videos of a channel recommend MELI, the later one first in
\* the batch, and the Recommendation holds the earlier date
FirstMentionedWitness ==
    /\ pc = "discovered"
    /\ Len(videos) = 2
    /\ videos[1]["channelName"] = videos[2]["channelName"]
    /\ videos[1]["publishedAt"] = 3
    /\ videos[2]["publishedAt"] = 1
    /\ \E i \in 1..Len(recommendations) :
          /\ recommendations[i].v.ticker = "MELI"
          /\ recommendations[i].v.mentionCount = 2
          /\ recommendations[i].v.firstMentioned = 1

\* C12: mentionCount of every Recommendation is the number of videos of its channel
\* that list its ticker, in any letter case, in tickersBought or tickersRecommended:
\* one video counts once.
MentionCountPerVideo ==
    pc = "discovered"
    => \A i \in 1..Len(recommendations) :
          recommendations[i].v.mentionCount = Cardinality(Listing(recommendations[i].v))

\* C13: an invocation of discover leaves the video list and the registry as they
\* were, and every invocation on the same video list and registry returns the same
\* newCandidates and existingMatches, element for element and in the same order.
DiscoveryPure ==
    [][(pc = "fetched" /\ pc' = "discovered")
       => /\ videos' = videos
          /\ dataFile' = dataFile
          /\ \A recs \in extract_recommendations_from_videos(<< >>, videos, today) :
                /\ discover_new_tickers(recs, dataFile).new_tickers = new_tickers'
                /\ discover_new_tickers(recs, dataFile).existing_updates
                   = existing_updates']_vars

Min(a, b) == IF a < b THEN a ELSE b

\* an addCandidates step
Adds == pc = "discovered" /\ pc' = "added"

\* C14: addCandidates appends min(maxToAdd, number of candidates) entries to the end
\* of the registry, built from the first candidates in their order; the entries that
\* were there keep content and order; the returned list holds the tickers of the
\* appended entries in the same order.
AddAppendsPrefix ==
    [][Adds
       => LET n == Min(max_to_add, Len(new_tickers))
              old == Len(current_stocks)
          IN /\ Len(current_stocks') = old + n
             /\ SubSeq(current_stocks', 1, old) = current_stocks
             /\ Len(added_tickers') = n
             /\ \A i \in 1..n :
                   /\ current_stocks'[old + i]["ticker"] = new_tickers[i].ticker
                   /\ current_stocks'[old + i]["source"] = new_tickers[i].channel
                   /\ current_stocks'[old + i]["recommendedDate"]
                      = new_tickers[i].firstMentioned
                   /\ added_tickers'[i] = new_tickers[i].ticker]_vars

\* a registry of two entries got the first of two candidates: the limit cut the list
AddAppendsPrefixWitness ==
    /\ pc = "added"
    /\ max_to_add = 1
    /\ Len(new_tickers) = 2
    /\ Len(added_tickers) = 1
    /\ Len(current_stocks) = 3

\* C15: a failed price lookup does not end the batch: each of the first maxToAdd
\* candidates is looked up and appended, the entry of a candidate whose lookup
\* failed has initialPrice null, and every other entry has the price the service
\* returned for it.
FailSoftAdd ==
    [][Adds
       => LET n == Min(max_to_add, Len(new_tickers))
              old == Len(current_stocks)
          IN /\ Len(current_stocks') = old + n
             /\ n > 0 => Len(price_lookups') = n
             /\ n > 0 => \A i \in 1..n :
                   /\ price_lookups'[i].ticker = new_tickers[i].ticker
                   /\ price_lookups'[i].date = new_tickers[i].firstMentioned
                   /\ current_stocks'[old + i]["ticker"] = new_tickers[i].ticker
                   /\ current_stocks'[old + i]["initialPrice"] = price_lookups'[i].result]_vars

\* the lookup for the first candidate failed and the second candidate was still
\* added, with the price the service returned
FailSoftAddWitness ==
    /\ pc = "added"
    /\ Len(added_tickers) = 2
    /\ price_lookups[1].result = Null
    /\ price_lookups[2].result # Null
    /\ AddedEntries[1]["initialPrice"] = Null
    /\ AddedEntries[2]["initialPrice"] = price_lookups[2].result

\* C16: a reconcile step whose input does not parse leaves data/stocks.json and
\* output/stocks.json as they were, and data/stocks.json changes only in a reconcile
\* step that parsed its input and wrote both files.
NoPartialWrite ==
    [][/\ (pc = "analysed" /\ outputFile.exists /\ ~outputFile.valid)
          => (dataFile' = dataFile /\ outputFile' = outputFile)
       /\ dataFile' # dataFile
          => /\ pc = "analysed"
             /\ outputFile.exists
             /\ outputFile.valid
             /\ outputFile' = JsonList(dataFile')]_vars

\* step 5 has met an output that does not parse, with a registry on disk
NoPartialWriteWitness ==
    /\ pc = "idle"
    /\ exit_status = "success"
    /\ outputFile = NotJson
    /\ dataFile # << >>

\* a step at which the run fails: the video fetch raises, the analysis raises, or
\* the reconcile step cannot parse its input
RunFails ==
    \/ pc = "idle" /\ pc' = "idle"
    \/ pc = "added" /\ pc' = "idle"
    \/ pc = "analysed" /\ outputFile.exists /\ ~outputFile.valid

\* C17: a failure at a step ends the run: no later step runs, the run reports an
\* error and not success, and the persisted registry is the one from before.
FailureHaltsRun ==
    [][RunFails => (pc' = "idle" /\ exit_status' = "error" /\ dataFile' = dataFile)]_vars

\* the prior entry of a fresh record's key ({} when there is none)
PriorOf(f) ==
    IF \E j \in 1..Len(dataFile) : IdentityKey(dataFile[j]) = IdentityKey(f)
    THEN dataFile[CHOOSE j \in 1..Len(dataFile) : IdentityKey(dataFile[j]) = IdentityKey(f)]
    ELSE EmptyDict

\* a protected field of a fresh record after copy-forward (Null when neither has it)
Copied(f, field) == IF field \in DOMAIN f THEN f[field] ELSE Get(PriorOf(f), field, Null)

\* the recommendedDate the backfill goes by: the fresh record's, else the prior's
DateOf(f) ==
    IF Get(f, "recommendedDate", Null) # Null
    THEN f["recommendedDate"]
    ELSE Get(PriorOf(f), "recommendedDate", Null)

\* the entry the reconcile step wrote for a fresh record's key
WrittenFor(f) ==
    dataFile'[CHOOSE j \in 1..Len(dataFile') : IdentityKey(dataFile'[j]) = IdentityKey(f)]

\* the lookups the reconcile step made for a fresh record
LookupsFor(f) ==
    {k \in 1..Len(price_lookups') : price_lookups'[k].ticker = Upper(f["ticker"])}

\* a reconcile step whose fresh records have non-empty tickers and different keys
ReconcilesDistinct ==
    /\ Reconciles
    /\ UniqueKeys(FreshRecords)
    /\ \A i \in 1..Len(FreshRecords) : Upper(Get(FreshRecords[i], "ticker", "")) # ""

\* C18: for a fresh record whose initialPrice is absent or null after copy-forward:
\* (a) with a recommendedDate before today the service is asked for that date and
\* initialPrice becomes its result, or the fresh record's price when it has none;
\* (b) with no recommendedDate initialPrice becomes the fresh record's price.  For a
\* record with a numeric initialPrice the service is not asked.
BackfillRule ==
    [][ReconcilesDistinct
       => \A i \in 1..Len(FreshRecords) :
             LET f == FreshRecords[i]
             IN /\ Copied(f, "initialPrice") # Null => LookupsFor(f) = {}
                /\ (Copied(f, "initialPrice") = Null /\ DateOf(f) # Null /\ DateOf(f) < today)
                   => \E k \in LookupsFor(f) :
                         /\ price_lookups'[k].date = DateOf(f)
                         /\ Get(WrittenFor(f), "initialPrice", Null)
                            = IF price_lookups'[k].result # Null
                              THEN price_lookups'[k].result
                              ELSE Get(f, "price", Null)
                /\ (Copied(f, "initialPrice") = Null /\ DateOf(f) = Null)
                   => /\ "initialPrice" \in DOMAIN WrittenFor(f)
                      /\ WrittenFor(f)["initialPrice"] = Get(f, "price", Null)]_vars

\* C18 as amended: the same with 0 counted as no value: the backfill applies when
\* initialPrice is absent, null or 0 after copy-forward; a result of the service
\* counts when it is a non-zero price; and with no recommendedDate initialPrice
\* becomes the fresh record's price when that is a non-zero number and is left as it
\* is otherwise.  A record with a non-zero initialPrice keeps it and the service is
\* not asked.
BackfillRuleAmended ==
    [][ReconcilesDistinct
       => \A i \in 1..Len(FreshRecords) :
             LET f == FreshRecords[i]
             IN /\ Truthy(Copied(f, "initialPrice"))
                   => /\ LookupsFor(f) = {}
                      /\ WrittenFor(f)["initialPrice"] = Copied(f, "initialPrice")
                /\ (~Truthy(Copied(f, "initialPrice")) /\ DateOf(f) # Null /\ DateOf(f) < today)
                   => \E k \in LookupsFor(f) :
                         /\ price_lookups'[k].date = DateOf(f)
                         /\ Get(WrittenFor(f), "initialPrice", Null)
                            = IF Truthy(price_lookups'[k].result)
                              THEN price_lookups'[k].result
                              ELSE Get(f, "price", Null)
                /\ (~Truthy(Copied(f, "initialPrice")) /\ DateOf(f) = Null)
                   => IF Truthy(Get(f, "price", Null))
                      THEN WrittenFor(f)["initialPrice"] = f["price"]
                      ELSE /\ "initialPrice" \in DOMAIN WrittenFor(f)
                              <=> ("initialPrice" \in DOMAIN f
                                   \/ "initialPrice" \in DOMAIN PriorOf(f))
                           /\ Get(WrittenFor(f), "initialPrice", Null)
                              = Copied(f, "initialPrice")]_vars

\* a reconcile step of two records: for one the lookup failed and it got its own
\* price as initialPrice, for the other the service's price was taken
BackfillRuleWitness ==
    /\ pc = "idle"
    /\ Len(dataFile) = 2
    /\ Len(price_lookups) = 2
    /\ \E k, j \in 1..2 :
          /\ price_lookups[k].result = Null
          /\ dataFile[j]["ticker"] = price_lookups[k].ticker
          /\ dataFile[j]["initialPrice"] = dataFile[j]["price"]
    /\ \E k, j \in 1..2 :
          /\ price_lookups[k].result # Null
          /\ dataFile[j]["ticker"] = price_lookups[k].ticker
          /\ dataFile[j]["initialPrice"] = price_lookups[k].result

\* C19: after a reconcile step of a run dated today every entry of the written
\* registry has lastUpdated = today, the entries carried over from the prior
\* registry included.
LastUpdatedToday ==
    [][Reconciles
       => \A j \in 1..Len(dataFile') : Get(dataFile'[j], "lastUpdated", Null) = today]_vars

\* (ticker, source) of e1 is at most that of e2, strings in code-point order, a
\* missing source taken as the empty string
PairAtMost(e1, e2) ==
    \/ StrRank(Get(e1, "ticker", "")) < StrRank(Get(e2, "ticker", ""))
    \/ /\ StrRank(Get(e1, "ticker", "")) = StrRank(Get(e2, "ticker", ""))
       /\ StrRank(Get(e1, "source", "")) <= StrRank(Get(e2, "source", ""))

\* C20: the list reconcile writes is ascending in (ticker, source): every entry is
\* at most its successor.
SortedByTickerSource ==
    [][Reconciles
       => /\ outputFile' = JsonList(dataFile')
          /\ \A i \in 1..(Len(dataFile') - 1) :
                PairAtMost(dataFile'[i], dataFile'[i + 1])]_vars

\* a written list of three entries in which an entry without source stands before
\* the entry of the same ticker with a source
SortedByTickerSourceWitness ==
    /\ pc = "idle"
    /\ Len(dataFile) = 3
    /\ \E i \in 1..2 :
          /\ "source" \notin DOMAIN dataFile[i]
          /\ dataFile[i + 1]["ticker"] = dataFile[i]["ticker"]
          /\ "source" \in DOMAIN dataFile[i + 1]

(***************************************************************************)
(* Records that reconcile skips, and a registry that holds an entry with   *)
(* an empty ticker.                                                        *)
(***************************************************************************)

\* analysis output elements: a complete record, an empty ticker, no ticker, no object
SkipRecords ==
    {[ticker |-> "NVDA", source |-> "ChanA", price |-> 180],
     [ticker |-> "", source |-> "ChanA", price |-> 180],
     [source |-> "ChanA", price |-> 180],
     NotAnObject}

\* data/stocks.json when the run starts: no file, or a hand-edited list of which
\* one entry has an empty ticker
SkipRegistries ==
    {<< >>,
     <<[ticker |-> "", source |-> "ChanA", price |-> 50, lastUpdated |-> 1],
       [ticker |-> "DUOL", source |-> "ChanB", price |-> 180, initialPrice |-> 100,
        lastUpdated |-> 1]>>}

\* videos of which one names an empty ticker
SkipVideos ==
    {Video("ChanA", <<"">>, << >>, << >>),
     Video("ChanB", << >>, <<"DUOL">>, <<"DUOL">>)}

InitSkip ==
    /\ pc = "idle"
    /\ today = 2
    /\ dataFile \in SkipRegistries
    /\ outputFile = NoFile
    /\ videos = << >>
    /\ recommendations = << >>
    /\ new_tickers = << >>
    /\ existing_updates = << >>
    /\ current_stocks = << >>
    /\ added_tickers = << >>
    /\ max_to_add = MaxToAdd
    /\ price_lookups = << >>
    /\ exit_status = "none"
    /\ api_key = TRUE
    /\ ServiceIdle

NextSkip ==
    \/ step_1_fetch_videos(SeqsUpTo(SkipVideos, MaxVideos))
    \/ step_2_discover_tickers
    \/ step_3_add_new_tickers
    \/ step_4_run_analysis(SkipRecords)
    \/ step_5_finalize

SpecSkip == InitSkip /\ [][NextSkip]_vars

\* a fresh record that is no object, or whose ticker is missing or empty
Skipped(e) == ~IsDict(e) \/ Get(e, "ticker", "") = ""

NotSkipped(e) == ~Skipped(e)

\* C21: a reconcile step over a list of fresh records writes the registry that it
\* writes for the list without the records that are no object or have a missing or
\* empty ticker: the keys of the written registry are the prior keys and the keys of
\* the other records, and when every fresh record is skipped the registry is written
\* back as it was.  And discover never classifies a candidate as already tracked on
\* account of a registry entry whose ticker is empty.
SkipsWithoutError ==
    [][/\ (pc = "analysed" /\ pc' = "idle" /\ outputFile.exists /\ outputFile.valid
           /\ outputFile.isList)
          => LET kept == SelectSeq(outputFile.data, NotSkipped)
             IN /\ outputFile' = JsonList(dataFile')
                /\ exit_status' = "success"
                /\ \E hist \in [1..Len(kept) -> HistResults] :
                      dataFile' = reconcile(JsonList(kept), dataFile, today, hist)
                /\ KeysOf(dataFile') = KeysOf(dataFile) \cup KeysOf(kept)
                /\ kept = << >> => dataFile' = dataFile
       /\ (pc = "fetched" /\ pc' = "discovered")
          => \A i \in 1..Len(existing_updates') :
                \E j \in 1..Len(dataFile) :
                   /\ Get(dataFile[j], "ticker", "") # ""
                   /\ IdentityKey(dataFile[j])
                        = existing_updates'[i].ticker \o "|" \o existing_updates'[i].channel]_vars

\* a reconcile step over two fresh records, a skipped one before a kept one, against
\* a registry that holds an entry with an empty ticker
SkipsWithoutErrorWitness ==
    /\ pc = "idle"
    /\ exit_status = "success"
    /\ outputFile.isList
    /\ Len(dataFile) = 3
    /\ Get(dataFile[1], "ticker", "") = ""
    /\ Get(dataFile[1], "price", Null) = 50
    /\ \E i \in 1..Len(dataFile) : IdentityKey(dataFile[i]) = "NVDA|ChanA"

(***************************************************************************)
(* Runs of main() of which some start without the API credential.          *)
(***************************************************************************)

NextKey ==
    \/ main_without_api_key
    \/ step_1_fetch_videos(SeqsUpTo(PipelineVideos, MaxVideos))
    \/ step_2_discover_tickers
    \/ step_3_add_new_tickers
    \/ step_4_run_analysis({[ticker |-> "NVDA", source |-> "ChanA", price |-> 180]})
    \/ step_5_finalize

SpecKey == Init /\ [][NextKey]_vars

\* C22: a run that starts without OPENROUTER_API_KEY ends with an error at once:
\* it leaves main() idle, fetches no videos, asks for no historical price, starts no
\* analysis and writes neither data/stocks.json nor output/stocks.json; no step runs
\* while the credential of the run is missing.
MissingKeyAborts ==
    [][/\ ~api_key' => /\ pc = "idle"
                       /\ pc' = "idle"
                       /\ exit_status' = "error"
                       /\ UNCHANGED <<dataFile, outputFile, videos, recommendations,
                                      new_tickers, current_stocks, added_tickers,
                                      price_lookups>>
       /\ pc' # "idle" => api_key']_vars

\* a run without the credential that started after an earlier run wrote the registry
MissingKeyAbortsWitness ==
    /\ ~api_key
    /\ exit_status = "error"
    /\ pc = "idle"
    /\ dataFile # << >>
    /\ price_lookups # << >>

(***************************************************************************)
(* Calls of get_historical_price.                                          *)
(***************************************************************************)

\* the interpreter goes on with the loop: an iteration that can be taken is taken
SpecRetry == Init /\ [][NextRetry]_vars /\ WF_vars(hp_attempt) /\ WF_vars(hp_loop_ends)

NonNegative(n) == IF n < 0 THEN 0 ELSE n

\* C23: a call of get_historical_price makes at most max_retries attempts, never
\* ends by raising, and returns a price or None; an attempt that raises is followed
\* by another attempt while fewer than max_retries were made, and ends the call with
\* None otherwise; and every call returns.
RetryTerminates ==
    /\ [](/\ hp.requests <= NonNegative(hp.max_retries)
          /\ hp.status \in {"idle", "running", "returned"}
          /\ hp.status = "returned" => hp.result \in ClosePrices \cup {Null})
    /\ [][(hp.status = "running" /\ hp'.requests = hp.requests + 1 /\ hp'.last = "raise")
             => IF hp'.requests < hp.max_retries
                THEN hp'.status = "running"
                ELSE hp'.status = "returned" /\ hp'.result = Null]_vars
    /\ (hp.status = "running") ~> (hp.status = "returned")

\* a call with max_retries 2 whose two attempts raised and that returned None
RetryTerminatesWitness ==
    /\ hp.status = "returned"
    /\ hp.max_retries = 2
    /\ hp.requests = 2
    /\ hp.last = "raise"
    /\ hp.result = Null

(***************************************************************************)
(* Analysis records that hold fields outside the preserved ones.           *)
(***************************************************************************)

UpsertRecords ==
    {[ticker |-> "NVDA", source |-> "ChanA", price |-> 180, initialPrice |-> 120,
      sourceDetails |-> "details"],
     [ticker |-> "NVDA", source |-> "ChanA", price |-> 200],
     [ticker |-> "nvda", source |-> "ChanA", price |-> 200, name |-> "Nvidia"],
     [ticker |-> "DUOL", price |-> 150, sourceDetails |-> "details"]}

NextUpsert ==
    \/ step_1_fetch_videos(SeqsUpTo({Video("ChanA", <<"NVDA">>, << >>, <<"NVDA">>)}, MaxVideos))
    \/ step_2_discover_tickers
    \/ step_3_add_new_tickers
    \/ step_4_run_analysis(UpsertRecords)
    \/ step_5_finalize

SpecUpsert == Init /\ [][NextUpsert]_vars

\* the fields that reconcile copies forward or sets itself
ProtectedFields == {"initialPrice", "source", "recommendedDate", "lastUpdated"}

Unprotected(e) == [f \in DOMAIN e \ ProtectedFields |-> e[f]]

\* the fresh record at position i is the last one of its key in the batch
LastOfItsKey(i) ==
    /\ NotSkipped(FreshRecords[i])
    /\ \A j \in (i + 1)..Len(FreshRecords) :
          Skipped(FreshRecords[j])
          \/ IdentityKey(FreshRecords[j]) # IdentityKey(FreshRecords[i])

\* C24: after a reconcile step the entry of a fresh record's key holds, outside
\* initialPrice, source, recommendedDate and lastUpdated, the fields of the fresh
\* record (the last one of that key in the batch) with its values and no other
\* field: a field that only the prior entry had is gone.
UpsertOverwrites ==
    [][Reconciles
       => \A i \in 1..Len(FreshRecords) :
             LastOfItsKey(i)
             => /\ \E j \in 1..Len(dataFile') :
                      IdentityKey(dataFile'[j]) = IdentityKey(FreshRecords[i])
                /\ Unprotected(WrittenFor(FreshRecords[i])) = Unprotected(FreshRecords[i])]_vars

\* the registry after a record without sourceDetails replaced an entry that had it
UpsertOverwritesWitness ==
    /\ pc = "idle"
    /\ exit_status = "success"
    /\ today = 3
    /\ \E i \in 1..Len(dataFile) :
          /\ IdentityKey(dataFile[i]) = "NVDA|ChanA"
          /\ dataFile[i]["lastUpdated"] = 3
          /\ dataFile[i]["price"] = 200
          /\ dataFile[i]["initialPrice"] = 120
          /\ "sourceDetails" \notin DOMAIN dataFile[i]

(***************************************************************************)
(* Discovery and registry append on batches whose videos differ in their   *)
(* titles.                                                                 *)
(***************************************************************************)

\* the most videos of a batch with titles
MaxTitled == 4

TitledVideos ==
    {[videoId |-> "v", title |-> t, publishedAt |-> 1,
      channelId |-> "c", channelName |-> "ChanA",
      tickersMentioned |-> <<"NVDA">>, tickersBought |-> <<"NVDA">>,
      tickersRecommended |-> << >>] : t \in {"t1", "t2", "t3", "t4"}}

InitTitles ==
    /\ pc = "fetched"
    /\ today = 2
    /\ dataFile = << >>
    /\ outputFile = NoFile
    /\ videos \in SeqsUpTo(TitledVideos, MaxTitled)
    /\ recommendations = << >>
    /\ new_tickers = << >>
    /\ existing_updates = << >>
    /\ current_stocks = << >>
    /\ added_tickers = << >>
    /\ max_to_add = MaxToAdd
    /\ price_lookups = << >>
    /\ exit_status = "none"
    /\ api_key = TRUE
    /\ ServiceIdle

NextTitles == step_2_discover_tickers \/ step_3_add_new_tickers

SpecTitles == InitTitles /\ [][NextTitles]_vars

\* the first n distinct titles of the videos vs[i..], after the titles in seen
RECURSIVE FirstDistinct(_, _, _, _)
FirstDistinct(seen, vs, i, n) ==
    IF i > Len(vs) \/ Len(seen) >= n THEN seen
    ELSE FirstDistinct(IF vs[i]["title"] \in ToSet(seen) THEN seen
                       ELSE Append(seen, vs[i]["title"]),
                       vs, i + 1, n)

\* the videos of the batch that list a Recommendation's ticker, in input order
ListingVideos(rec) ==
    LET Lists(v) == /\ v["channelName"] = rec.channel
                    /\ \E t \in ToSet(v["tickersBought"]) \cup ToSet(v["tickersRecommended"]) :
                          Upper(t) = rec.ticker
    IN SelectSeq(videos, Lists)

NoDuplicate(titles) ==
    \A i, j \in 1..Len(titles) : titles[i] = titles[j] => i = j

\* C25: the video titles of every Recommendation that discover returns are the first
\* 3 distinct titles of the videos that list its ticker, in input order: no title
\* twice and at most 3 titles; and sourceDetails.videos of every entry that step 3
\* created has no title twice and at most 3 titles.
TitlesCapped ==
    /\ pc = "discovered"
       => \A i \in 1..Len(new_tickers) :
             /\ NoDuplicate(new_tickers[i].videos)
             /\ Len(new_tickers[i].videos) <= 3
             /\ new_tickers[i].videos = FirstDistinct(<< >>, ListingVideos(new_tickers[i]), 1, 3)
    /\ pc = "added"
       => \A i \in 1..Len(AddedEntries) :
             /\ NoDuplicate(AddedEntries[i].sourceDetails.videos)
             /\ Len(AddedEntries[i].sourceDetails.videos) <= 3

(***************************************************************************)
(* Runs whose analysis output is a JSON array text inside fence markers.   *)
(***************************************************************************)

\* valid JSON array texts, on one line and on several
JsonTexts ==
    {<<"[]">>, <<"[r]">>, <<"[", LineBreak, "r", LineBreak, "]">>}

\* what precedes the array: nothing, or a fence line without or with a language tag
LeadingFences == {<< >>, <<Fence, LineBreak>>, <<Fence, "json", LineBreak>>}

\* what follows it: nothing, the marker on its own line, the marker directly after
TrailingFences == {<< >>, <<LineBreak, Fence>>, <<Fence>>}

FencedTexts ==
    {lead \o J \o trail : lead \in LeadingFences, J \in JsonTexts, trail \in TrailingFences}

NextFence ==
    \/ step_1_fetch_videos(SeqsUpTo({Video("ChanA", <<"NVDA">>, << >>, <<"NVDA">>)}, MaxVideos))
    \/ step_2_discover_tickers
    \/ step_3_add_new_tickers
    \/ step_4_writes_text(FencedTexts)
    \/ step_5_finalize

SpecFence == Init /\ [][NextFence]_vars

\* the JSON array text inside the fence markers
Payload(text) ==
    LET IsJson(piece) == piece # Fence /\ piece # "json"
    IN SelectSeq(text, IsJson)

\* C26: step 5, given a valid JSON array text inside a leading fence line and/or a
\* trailing fence marker, writes the registry that reconcile yields for the array
\* text alone.
FenceStripping ==
    [][(pc = "analysed" /\ pc' = "idle" /\ "text" \in DOMAIN outputFile)
       => \E hist \in [1..Len(json_loads(Payload(outputFile.text)).data) -> HistResults] :
             dataFile' = reconcile(json_loads(Payload(outputFile.text)), dataFile,
                                   today, hist)]_vars

(***************************************************************************)
(* Two runs of main() in one working directory.                            *)
(***************************************************************************)

\* the analysis records of the two runs: two keys
ConcurrentRecords ==
    {[ticker |-> "NVDA", source |-> "ChanA", price |-> 180],
     [ticker |-> "DUOL", source |-> "ChanB", price |-> 150]}

NextConcurrent ==
    \/ \E p \in Processes : run_step_4(p, ConcurrentRecords)
    \/ \E p \in Processes : run_step_5_reads(p)
    \/ \E p \in Processes : run_step_5_writes(p)
    \/ \E p \in Processes : run_step_5_copies(p)

SpecConcurrent == Init /\ [][NextConcurrent]_vars

\* C27: when one run started after the other had ended, every key the first one
\* merged is in data/stocks.json from then on; a registry that lacks a key merged by a
\* run that has ended is reached only by runs that overlap.
SerialRunsKeepKeys ==
    \A p, q \in Processes :
        p \in runs[q].after => runs[p].wrote \subseteq KeysOf(dataFile)

\* both runs read the empty data/stocks.json before either wrote it, both have
\* ended, and a key that run 1 merged is not in data/stocks.json
LostUpdateWitness ==
    /\ \A p \in Processes : /\ runs[p].pc = "done"
                            /\ runs[p].after = {}
                            /\ runs[p].existing_data = << >>
    /\ runs[1].merged_data # << >>
    /\ \E k \in runs[1].wrote : k \notin KeysOf(dataFile)

(***************************************************************************)
(* Analysis records of one key for every branch of the backfill.           *)
(***************************************************************************)

InitialPriceRecords ==
    {[ticker |-> "NVDA", source |-> "ChanA", price |-> 180],
     [ticker |-> "NVDA", source |-> "ChanA", price |-> 180, recommendedDate |-> 1],
     [ticker |-> "NVDA", source |-> "ChanA", price |-> 180, recommendedDate |-> 3],
     [ticker |-> "NVDA", source |-> "ChanA", price |-> 0, initialPrice |-> Null],
     [ticker |-> "NVDA", source |-> "ChanA", price |-> 200, initialPrice |-> 120]}

NextInitialPrice ==
    \/ step_1_fetch_videos(SeqsUpTo({Video("ChanA", <<"NVDA">>, << >>, <<"NVDA">>)}, MaxVideos))
    \/ step_2_discover_tickers
    \/ step_3_add_new_tickers
    \/ step_4_run_analysis(InitialPriceRecords)
    \/ step_5_finalize

SpecInitialPrice == Init /\ [][NextInitialPrice]_vars

\* C28: after a reconcile step the entry stored for a fresh record (the last one of
\* its key in the batch) with a non-empty ticker and a non-zero numeric price holds
\* an initialPrice that is a number, whichever branch of the backfill was taken.
InitialPriceSet ==
    [][Reconciles
       => \A i \in 1..Len(FreshRecords) :
             (LastOfItsKey(i) /\ Truthy(Get(FreshRecords[i], "price", Null)))
             => /\ "initialPrice" \in DOMAIN WrittenFor(FreshRecords[i])
                /\ WrittenFor(FreshRecords[i])["initialPrice"] # Null]_vars

\* a reconcile step on the day of the recommendedDate, for which no price was looked
\* up, stored the price of the fresh record as initialPrice
InitialPriceSetWitness ==
    /\ pc = "idle"
    /\ exit_status = "success"
    /\ today = 3
    /\ price_lookups = << >>
    /\ Len(dataFile) = 1
    /\ Get(dataFile[1], "recommendedDate", Null) = 3
    /\ dataFile[1]["lastUpdated"] = 3
    /\ Get(dataFile[1], "initialPrice", Null) = 180

(***************************************************************************)
(* Analysis records whose recommendedDate, where they have one, is day 1.  *)
(***************************************************************************)

IdempotenceRecords ==
    {[ticker |-> "nvda", source |-> "ChanA", price |-> 200],
     [ticker |-> "NVDA", source |-> "ChanA", price |-> 180, initialPrice |-> Null,
      recommendedDate |-> 1],
     [ticker |-> "DUOL", source |-> "ChanB", price |-> 150, recommendedDate |-> 1]}

NextIdempotence ==
    \/ step_1_fetch_videos(SeqsUpTo({Video("ChanA", <<"NVDA">>, << >>, <<"NVDA">>)}, MaxVideos))
    \/ step_2_discover_tickers
    \/ step_3_add_new_tickers
    \/ step_4_run_analysis(IdempotenceRecords)
    \/ step_5_finalize

SpecIdempotence == Init /\ [][NextIdempotence]_vars

\* a Historical Price Service that answers by ticker (every date asked for is day 1)
PriceServices == [{"NVDA", "DUOL"} -> HistResults]

\* the service gave the answers of the lookups of the reconcile step
Answered(service) ==
    \A k \in 1..Len(price_lookups') :
        price_lookups'[k].result = service[price_lookups'[k].ticker]

ProviderOrder == <<"yfinance", "alpha_vantage", "financial_modeling_prep">>

\* C30: within a call of fetch_live_prices the providers are asked in the order
\* yfinance, Alpha Vantage, Financial Modeling Prep; a provider after yfinance is
\* asked only for the tickers whose price is None at that moment; a price that is not
\* None is not replaced by the next provider's answer; and the returned dict has a
\* key for every requested ticker.
LiveFallbackOrder ==
    [][/\ \A i, j \in 1..Len(lp'.asked) :
             (i < j) => \E a, b \in 1..3 : /\ a < b
                                           /\ ProviderOrder[a] = lp'.asked[i].provider
                                           /\ ProviderOrder[b] = lp'.asked[j].provider
       /\ (lp.pc \in {"yfinance", "alpha_vantage"})
          => /\ Len(lp'.asked) > Len(lp.asked)
                => lp'.asked[Len(lp'.asked)].tickers = missing_tickers(lp.prices)
             /\ \A t \in DOMAIN lp.prices :
                   lp.prices[t] # Null => lp'.prices[t] = lp.prices[t]
       /\ lp'.pc = "returned" => ToSet(lp'.tickers) \subseteq DOMAIN lp'.prices]_vars

====
